---- MODULE Spec2Model ----
(***************************************************************************)
(* Model of composio_google/toolset.py: the ComposioToolset adapter for    *)
(* the Gemini function-calling SDK.                                        *)
(*                                                                         *)
(* Python values are encoded uniformly so that TLC can compare them:       *)
(*   - an Optional[x] is the sequence <<>> (None) or <<x>>;                *)
(*   - a value found in function_call.args is a node                       *)
(*       [kind, keys, items, val]                                          *)
(*     whose kind is the Python type of the value: "MapComposite" (the     *)
(*     vendor nested map), "RepeatedComposite" (the vendor repeated        *)
(*     container of proto.marshal.collections, a MutableSequence that is   *)
(*     neither a list nor a tuple), "list", "tuple", "dict", "scalar" or   *)
(*     "None".  keys is the insertion-ordered key sequence of a mapping,   *)
(*     items the values (of a mapping, in key order) or the elements.      *)
(***************************************************************************)
EXTENDS Integers, Sequences, FiniteSets, TLC

\* ------------------------------------------------------------------ bounds

\* Greatest nesting depth of the argument values fed to the response walker.
MaxDepth == 3

\* Greatest number of candidates of a model response.
MaxCandidates == 2

\* Greatest number of parts of one model response, all candidates together.
MaxParts == 3

\* Greatest number of tool schemas the registry returns for one filter.
MaxSchemas == 2

\* ------------------------------------------------------- Python primitives

None == <<>>

Some(x) == <<x>>

\* Truthiness of an Optional[str]: None and the empty string are falsy.
Truthy(opt) == opt # None /\ opt[1] # ""

\* Python's `a or b` on Optional[str] operands.
Or(a, b) == IF Truthy(a) THEN a ELSE b

\* --------------------------------------------------------- argument values

Scalar(n) == [kind |-> "scalar", keys |-> <<>>, items |-> <<>>, val |-> n]

NoneVal == [kind |-> "None", keys |-> <<>>, items |-> <<>>, val |-> 0]

MapKinds == {"MapComposite", "dict"}

SeqKinds == {"list", "tuple", "RepeatedComposite"}

KeyOrder == <<"a", "b">>

\* A container of the given Python type; a mapping takes its keys from KeyOrder.
Container(kind, items) ==
    [kind  |-> kind,
     keys  |-> IF kind \in MapKinds THEN SubSeq(KeyOrder, 1, Len(items)) ELSE <<>>,
     items |-> items,
     val   |-> 0]

EmptyDict == Container("dict", <<>>)

Leaves == {Scalar(1), NoneVal}

\* The children of a container built around child c: c alone, or c followed
\* by a scalar that differs from it.
Shapes(c) == {<<c>>, <<c, Scalar(2)>>}

\* The acyclic values nested at most d deep.
RECURSIVE Values(_)
Values(d) ==
    IF d = 0 THEN Leaves
    ELSE LET V == Values(d - 1)
         IN  V \cup {Container(k, s) : k \in MapKinds \cup SeqKinds,
                                       s \in {<<>>} \cup UNION {Shapes(c) : c \in V}}

ArgValues == Values(MaxDepth)

\* Nesting depth of a value: the number of containers on its longest path.
RECURSIVE Depth(_)
Depth(v) ==
    IF v.items = <<>> THEN (IF v.kind \in MapKinds \cup SeqKinds THEN 1 ELSE 0)
    ELSE 1 + (LET ds == {Depth(v.items[i]) : i \in DOMAIN v.items}
              IN  CHOOSE m \in ds : \A n \in ds : n <= m)

\* ---------------------------------------------------------- response walker

\* convert_map_composite (toolset.py 212-218): three cases on the type of obj.
RECURSIVE convert_map_composite(_)
convert_map_composite(obj) ==
    IF obj.kind = "MapComposite"
    THEN [kind  |-> "dict",
          keys  |-> obj.keys,
          items |-> [i \in DOMAIN obj.items |-> convert_map_composite(obj.items[i])],
          val   |-> 0]
    ELSE IF obj.kind \in {"list", "tuple"}
    THEN [kind  |-> "list",
          keys  |-> <<>>,
          items |-> [i \in DOMAIN obj.items |-> convert_map_composite(obj.items[i])],
          val   |-> 0]
    ELSE obj

\* ------------------------------------------------------------ model inputs

ActionNames == {"GITHUB_STAR", "SLACK_SEND"}

\* The explicit entity_id argument of a public method: omitted, empty, given.
EntityArgs == {None, Some(""), Some("alice")}

\* The toolset's default entity identifier (self.entity_id).
DefaultEntity == Some("default")

\* The engine either returns a result or raises its own error.
EngineErrors == {"ActionExecutionError"}

EngineOutcomes == {"ok"} \cup EngineErrors

FunctionCall(name, args) == [name |-> name, args |-> args]

\* The function calls found in model responses: one without args, one whose
\* args are a vendor map holding a list.
PartCalls ==
    {FunctionCall("GITHUB_STAR", NoneVal),
     FunctionCall("SLACK_SEND",
                  Container("MapComposite", <<Container("list", <<Scalar(1)>>), Scalar(2)>>))}

\* Elements of content.parts: an object that is no Part, a Part without a
\* function call (part.function_call falsy), a Part with a function call.
PartChoices ==
    {[isPart |-> FALSE, function_call |-> None],
     [isPart |-> TRUE, function_call |-> None]}
    \cup {[isPart |-> TRUE, function_call |-> Some(fc)] : fc \in PartCalls}

\* The candidates with exactly k parts; a content without a `parts`
\* attribute has none.
CandidatesWith(k) ==
    {[has_parts |-> TRUE, parts |-> p] : p \in [1..k -> PartChoices]}
    \cup (IF k = 0 THEN {[has_parts |-> FALSE, parts |-> <<>>]} ELSE {})

\* The responses of at most nc candidates and at most np parts in all.
RECURSIVE ResponsesWith(_, _)
ResponsesWith(nc, np) ==
    {<<>>} \cup
    (IF nc = 0 THEN {}
     ELSE UNION {{<<c>> \o r : c \in CandidatesWith(k),
                               r \in ResponsesWith(nc - 1, np - k)} : k \in 0..np})

Responses == ResponsesWith(MaxCandidates, MaxParts)

\* ----------------------------------------------------- tool schema inputs

\* dict.get(key, default) on a dict held as a function.
Get(d, key, default) == IF key \in DOMAIN d THEN d[key] ELSE default

\* dict.get(key, default) on an entry held as an Optional (None: key absent).
GetOpt(entry, default) == IF entry = None THEN default ELSE entry[1]

EmptyMapping == [k \in {} |-> ""]

PropKeys == {"type", "examples"}

PropValues(k) == IF k = "type" THEN {"string", "integer"} ELSE {"[1, 2]"}

\* The schema of one property: a dict that has or lacks each of PropKeys.
PropSchemas ==
    UNION {{f \in [D -> UNION {PropValues(k) : k \in PropKeys}] :
               \A k \in D : f[k] \in PropValues(k)} : D \in SUBSET PropKeys}

\* A parameter may itself be called "examples".
PropNames == {"repo", "examples"}

PropertyMaps == UNION {[D -> PropSchemas] : D \in SUBSET PropNames}

\* What `parameters.schema()` can answer: `properties` and `required` are
\* each present or absent.
NormalizedSchemas ==
    [properties : {None} \cup {Some(m) : m \in PropertyMaps},
     required   : {None, Some(<<"repo">>)}]

\* The ToolSchema objects of the registry; description is None, "" or a text.
ToolSchemas ==
    [name        : ActionNames,
     description : {None, Some(""), Some("Star a repo")},
     parameters  : NormalizedSchemas]

\* The tools the registry answers several of at once.
SmallToolSchemas ==
    {t \in ToolSchemas :
        /\ t.parameters.required = None
        /\ t.parameters.properties \in
              {None, Some([n \in {"repo"} |-> [k \in PropKeys |-> CHOOSE v \in PropValues(k) : TRUE]])}}

\* What get_action_schemas can answer: any one tool, or up to MaxSchemas
\* small ones.
RegistryAnswers ==
    {<<t>> : t \in ToolSchemas}
    \cup UNION {[1..n -> SmallToolSchemas] : n \in 0..MaxSchemas}

\* The (actions, apps, tags) filters of get_tool.
Filters ==
    [actions : {None, Some(<<"GITHUB_STAR">>)},
     apps    : {None, Some(<<"github">>)},
     tags    : {None}]

ValidationOutcomes == {"ok", "FilterValidationError"}

\* ------------------------------------------------------------------- state

VARIABLES
    entity_id,   \* self.entity_id, the toolset's default entity
    pc,          \* "idle", "handle_response" (inside its loops) or "done"
    call,        \* the public method being run and its arguments
    ci,          \* handle_response: index of the current candidate
    pi,          \* handle_response: index of the current part
    outputs,     \* handle_response: the local list `outputs`
    walkerLog,   \* the values convert_map_composite was called on, in order
    engineLog,   \* the execute_action invocations of this call, in order
    extCalls,    \* get_tool: the calls made on the base toolset, in order
    result       \* how the public method ended: returned value or raised error

vars == <<entity_id, pc, call, ci, pi, outputs, walkerLog, engineLog, extCalls, result>>

NoResult == [status |-> "none", value |-> <<>>, error |-> ""]

Returned(v) == [status |-> "returned", value |-> v, error |-> ""]

Raised(e) == [status |-> "raised", value |-> <<>>, error |-> e]

NoCall == [op |-> "none"]

\* ------------------------------------------------------- method resolution

\* The methods the class body binds, in source order, each with the line of
\* its `def`.
ClassBody ==
    << [name |-> "_wrap_tool",            line |-> 67],
       [name |-> "get_actions",           line |-> 98],
       [name |-> "get_tool",              line |-> 113],
       [name |-> "execute_function_call", line |-> 145],
       [name |-> "handle_response",       line |-> 174],
       [name |-> "execute_function_call", line |-> 199] >>

\* A bug that would bind a name to its first definition.
FirstBinding(name) ==
    LET idx == {i \in DOMAIN ClassBody : ClassBody[i].name = name}
    IN  ClassBody[CHOOSE i \in idx : \A j \in idx : i <= j].line

\* A later `def` of the same name rebinds it: the attribute lookup
\* self.<name> finds the last definition of the class body.
Binding(name) ==
    LET idx == {i \in DOMAIN ClassBody : ClassBody[i].name = name}
    IN  ClassBody[CHOOSE i \in idx : \A j \in idx : j <= i].line

\* ---------------------------------------------------------- schema adapter

\* tool.model_dump(exclude_none=True) (toolset.py 134-136): the dict of the
\* ToolSchema without the keys whose value is None.
model_dump(tool) ==
    IF tool.description = None
    THEN [name |-> tool.name, parameters |-> tool.parameters]
    ELSE [name |-> tool.name, description |-> tool.description[1],
          parameters |-> tool.parameters]

\* json_schema_to_model(raw).schema(): the normalized JSON schema.  The
\* tool's parameters are drawn from the schemas normalization can answer.
json_schema_to_model(raw) == raw

\* A bug that would copy a property schema whole.
copied_prop(prop_schema) == prop_schema

\* The copy of one property schema without its `examples` key (toolset.py 81).
cleaned_prop(prop_schema) ==
    [k \in DOMAIN prop_schema \ {"examples"} |-> prop_schema[k]]

\* A variant that would fall back to the name on every falsy description.
wrap_description_falsy(schema) ==
    IF "description" \in DOMAIN schema /\ schema.description # ""
    THEN schema.description
    ELSE schema.name

\* The description _wrap_tool gives the declaration (toolset.py 74).
wrap_description(schema) == Get(schema, "description", schema.name)

\* _wrap_tool (toolset.py 67-95).
wrap_tool(schema, entity) ==
    LET action      == schema.name
        description == wrap_description(schema)
        parameters  == json_schema_to_model(schema.parameters)
        properties  == GetOpt(parameters.properties, EmptyMapping)
        cleaned_properties ==
            [prop_name \in DOMAIN properties |-> cleaned_prop(properties[prop_name])]
        cleaned_parameters ==
            [type       |-> "object",
             properties |-> cleaned_properties,
             required   |-> GetOpt(parameters.required, <<>>)]
    IN  [name |-> action, description |-> description,
         parameters |-> cleaned_parameters]

\* A bug that would list the declarations in reverse.
function_declarations_reversed(schemas, entity) ==
    [i \in DOMAIN schemas |->
        wrap_tool(model_dump(schemas[Len(schemas) + 1 - i]), Or(entity, entity_id))]

\* The function_declarations list get_tool builds (toolset.py 132-142).
function_declarations(schemas, entity) ==
    [i \in DOMAIN schemas |-> wrap_tool(model_dump(schemas[i]), Or(entity, entity_id))]

\* The calls get_tool makes on the base toolset (toolset.py 130, 139-141).
ToolsetCalls(filter, validation, schemas) ==
    <<[fn |-> "validate_tools", args |-> filter, ret |-> validation]>>
    \o (IF validation = "ok"
        THEN <<[fn |-> "get_action_schemas", args |-> filter, ret |-> schemas]>>
        ELSE <<>>)

\* The body of get_tool (toolset.py 130-143) run as method op.
GetToolBody(op, filter, entity) ==
    /\ pc = "idle"
    /\ \E validation \in ValidationOutcomes, schemas \in RegistryAnswers :
          /\ extCalls' = ToolsetCalls(filter, validation, schemas)
          /\ result' = IF validation = "ok"
                       THEN Returned([function_declarations |->
                                         function_declarations(schemas, entity)])
                       ELSE Raised(validation)
    /\ call' = [op |-> op, filter |-> filter, entity_id |-> entity]
    /\ pc' = "done"
    /\ UNCHANGED <<entity_id, ci, pi, outputs, walkerLog, engineLog>>

\* get_tool (toolset.py 113-143).
GetTool ==
    \E filter \in Filters, entity \in EntityArgs : GetToolBody("get_tool", filter, entity)

\* get_actions (toolset.py 97-111): the deprecated alias forwards to get_tool.
GetActions ==
    \E actions \in {<<"GITHUB_STAR">>, <<"GITHUB_STAR", "SLACK_SEND">>},
       entity \in EntityArgs :
       GetToolBody("get_actions",
                   [actions |-> Some(actions), apps |-> None, tags |-> None],
                   entity)

\* -------------------------------------------------------------- dispatcher

\* What one run of execute_function_call does before the engine answers:
\* the values it runs the walker on and the execute_action invocation.
Invocation(walked, name, params, entity) ==
    [walked |-> walked, action |-> name, params |-> params, entity_id |-> entity]

\* execute_function_call as first defined (toolset.py 145-172).
execute_function_call_145(function_call, entity) ==
    Invocation(<<function_call.args>>,
               function_call.name,
               convert_map_composite(function_call.args),
               Or(entity, entity_id))

\* execute_function_call as defined last (toolset.py 199-226).
execute_function_call_199(function_call, entity) ==
    Invocation(IF function_call.args.kind # "None" THEN <<function_call.args>> ELSE <<>>,
               function_call.name,
               IF function_call.args.kind # "None"
               THEN convert_map_composite(function_call.args)
               ELSE EmptyDict,
               Or(entity, entity_id))

\* self.execute_function_call(...): the definition the class binds.
execute_function_call(function_call, entity) ==
    IF Binding("execute_function_call") = 199
    THEN execute_function_call_199(function_call, entity)
    ELSE execute_function_call_145(function_call, entity)

\* The ActionInvocationResult of a successful execute_action: opaque to the
\* toolset, determined by the invocation.
ActionResult(inv) ==
    [action |-> inv.action, params |-> inv.params, entity_id |-> inv.entity_id]

LogEntry(inv, outcome) ==
    [action |-> inv.action, params |-> inv.params, entity_id |-> inv.entity_id,
     outcome |-> outcome]

\* execute_function_call called by the user (toolset.py 199-226): one
\* synchronous engine call whose result is returned and whose error propagates.
ExecuteFunctionCall ==
    /\ pc = "idle"
    /\ \E name \in ActionNames, args \in ArgValues, entity \in EntityArgs,
          outcome \in EngineOutcomes :
          LET fc  == FunctionCall(name, args)
              inv == execute_function_call(fc, entity)
          IN  /\ call' = [op |-> "execute_function_call", function_call |-> fc,
                          entity_id |-> entity]
              /\ walkerLog' = inv.walked
              /\ engineLog' = <<LogEntry(inv, outcome)>>
              /\ result' = IF outcome = "ok" THEN Returned(ActionResult(inv))
                                             ELSE Raised(outcome)
    /\ pc' = "done"
    /\ UNCHANGED <<entity_id, ci, pi, outputs, extCalls>>

\* handle_response is entered (toolset.py 186): outputs = [].
HandleResponse ==
    /\ pc = "idle"
    /\ \E response \in Responses, entity \in EntityArgs :
          call' = [op |-> "handle_response", response |-> response,
                   entity_id |-> entity]
    /\ pc' = "handle_response"
    /\ ci' = 1
    /\ pi' = 1
    /\ outputs' = <<>>
    /\ UNCHANGED <<entity_id, walkerLog, engineLog, extCalls, result>>

InLoop == pc = "handle_response" /\ ci <= Len(call.response)

Candidate == call.response[ci]

\* `hasattr(candidate.content, 'parts')` and parts remain (toolset.py 188-189).
AtPart == InLoop /\ Candidate.has_parts /\ pi <= Len(Candidate.parts)

CurrentPart == Candidate.parts[pi]

\* `isinstance(part, Part) and part.function_call` (toolset.py 190).
IsFunctionCallPart(part) == part.isPart /\ part.function_call # None

\* The candidate has no `parts` attribute or its parts are exhausted: the
\* outer loop takes the next candidate (toolset.py 187-189).
HandleResponseNextCandidate ==
    /\ InLoop
    /\ ~AtPart
    /\ ci' = ci + 1
    /\ pi' = 1
    /\ UNCHANGED <<entity_id, pc, call, outputs, walkerLog, engineLog, extCalls, result>>

\* A bug that would fail on a part that carries no function call.
SkipPartRaises ==
    /\ AtPart
    /\ ~IsFunctionCallPart(CurrentPart)
    /\ result' = Raised("AttributeError")
    /\ pc' = "done"
    /\ UNCHANGED <<entity_id, call, ci, pi, outputs, walkerLog, engineLog, extCalls>>

\* The part fails the test of line 190 and is passed over.
HandleResponseSkipPart ==
    /\ AtPart
    /\ ~IsFunctionCallPart(CurrentPart)
    /\ pi' = pi + 1
    /\ UNCHANGED <<entity_id, pc, call, ci, outputs, walkerLog, engineLog, extCalls, result>>

\* A bug that would collect the results newest first.
CollectFront(outs, r) == <<r>> \o outs

\* The list handle_response holds after a successful call.
Collect(outs, r) == Append(outs, r)

\* A bug that would drop the caller's entity and always use the default.
DefaultEntityOnly(entity) == entity_id

\* The entity handle_response hands to execute_function_call (toolset.py 194).
HandleResponseEntity(entity) == Or(entity, entity_id)

\* A bug that would translate the engine's error into one of the adapter's.
PropagateTranslated(error) == Raised("MalformedResponseError")

\* What handle_response does with an engine error: nothing, it propagates.
Propagate(error) == Raised(error)

\* A function-call part is dispatched (toolset.py 191-196): the result is
\* appended to outputs, or the engine's error leaves handle_response.
HandleResponseDispatch ==
    /\ AtPart
    /\ IsFunctionCallPart(CurrentPart)
    /\ \E outcome \in EngineOutcomes :
          LET inv == execute_function_call(CurrentPart.function_call[1],
                                           HandleResponseEntity(call.entity_id))
          IN  /\ walkerLog' = walkerLog \o inv.walked
              /\ engineLog' = Append(engineLog, LogEntry(inv, outcome))
              /\ IF outcome = "ok"
                 THEN /\ outputs' = Collect(outputs, ActionResult(inv))
                      /\ pi' = pi + 1
                      /\ UNCHANGED <<pc, result>>
                 ELSE /\ result' = Propagate(outcome)
                      /\ pc' = "done"
                      /\ UNCHANGED <<outputs, pi>>
    /\ UNCHANGED <<entity_id, call, ci, extCalls>>

\* Every candidate has been visited: `return outputs` (toolset.py 197).
HandleResponseReturn ==
    /\ pc = "handle_response"
    /\ ~InLoop
    /\ result' = Returned(outputs)
    /\ pc' = "done"
    /\ UNCHANGED <<entity_id, call, ci, pi, outputs, walkerLog, engineLog, extCalls>>

\* The caller has its result or its exception and is free to make the next
\* call; the toolset keeps nothing of the finished one.
CallerResumes ==
    /\ pc = "done"
    /\ pc' = "idle"
    /\ call' = NoCall
    /\ ci' = 0
    /\ pi' = 0
    /\ outputs' = <<>>
    /\ walkerLog' = <<>>
    /\ engineLog' = <<>>
    /\ extCalls' = <<>>
    /\ result' = NoResult
    /\ UNCHANGED entity_id

Init ==
    /\ entity_id = DefaultEntity
    /\ pc = "idle"
    /\ call = NoCall
    /\ ci = 0
    /\ pi = 0
    /\ outputs = <<>>
    /\ walkerLog = <<>>
    /\ engineLog = <<>>
    /\ extCalls = <<>>
    /\ result = NoResult

Next ==
    \/ GetTool
    \/ GetActions
    \/ ExecuteFunctionCall
    \/ HandleResponse
    \/ HandleResponseNextCandidate
    \/ HandleResponseSkipPart
    \/ HandleResponseDispatch
    \/ HandleResponseReturn
    \/ CallerResumes

Spec == Init /\ [][Next]_vars

\* ------------------------------------------------------------- properties

\* The function calls of the parts of one candidate, in part order.
RECURSIVE CallsOfParts(_)
CallsOfParts(parts) ==
    IF parts = <<>> THEN <<>>
    ELSE (IF Head(parts).function_call # None
          THEN <<Head(parts).function_call[1]>> ELSE <<>>)
         \o CallsOfParts(Tail(parts))

\* The function calls of a response, in candidate order, then part order.
RECURSIVE CallsOf(_)
CallsOf(response) ==
    IF response = <<>> THEN <<>>
    ELSE CallsOfParts(Head(response).parts) \o CallsOf(Tail(response))

InHandleResponse == call.op = "handle_response"

InExecute == call.op = "execute_function_call"

InGetTool == call.op \in {"get_tool", "get_actions"}

Failed(log) == {i \in DOMAIN log : log[i].outcome # "ok"}

\* The engine invocation and result of function call fc run alone through
\* execute_function_call with the caller's entity argument.
Alone(fc) == execute_function_call(fc, call.entity_id)

\* C1: handle_response invokes the engine once per function-call part, in
\* candidate order then part order: at every moment the invocations made so
\* far are those of the first function-call parts, each the invocation
\* execute_function_call makes for that part alone.  When every engine call
\* succeeds it returns, and the returned sequence holds, in that order, the
\* result execute_function_call returns for each part alone, so as many
\* elements as there are function-call parts.
C1_ResultsInResponseOrder ==
    InHandleResponse =>
        LET calls == CallsOf(call.response)
        IN  /\ Len(engineLog) <= Len(calls)
            /\ \A i \in DOMAIN engineLog :
                  engineLog[i] = LogEntry(Alone(calls[i]), engineLog[i].outcome)
            /\ (pc = "done" /\ Failed(engineLog) = {}) =>
                  /\ result.status = "returned"
                  /\ Len(engineLog) = Len(calls)
                  /\ result.value = [i \in DOMAIN calls |-> ActionResult(Alone(calls[i]))]

\* C1 witness: a response of two candidates, each with a function-call part,
\* returned two different results.
C1_Witness ==
    /\ InHandleResponse
    /\ pc = "done"
    /\ result.status = "returned"
    /\ Len(call.response) = 2
    /\ \A c \in DOMAIN call.response : CallsOfParts(call.response[c].parts) # <<>>
    /\ Len(result.value) = 2
    /\ result.value[1] # result.value[2]

\* C2: once the engine has failed on the k-th function-call part,
\* handle_response is over: the failed invocation is the last one (parts
\* k+1..n are never dispatched, nothing is retried), it was the k-th part's,
\* no sequence is returned and the error raised is the engine's own.  A
\* direct execute_function_call makes one invocation and raises its error.
C2_FailureAborts ==
    /\ (InHandleResponse /\ Failed(engineLog) # {}) =>
          LET k == Len(engineLog)
          IN  /\ pc = "done"
              /\ Failed(engineLog) = {k}
              /\ k <= Len(CallsOf(call.response))
              /\ engineLog[k].action = CallsOf(call.response)[k].name
              /\ Len(outputs) = k - 1
              /\ result.status = "raised"
              /\ result.value = <<>>
              /\ result.error = engineLog[k].outcome
    /\ InExecute =>
          /\ Len(engineLog) = 1
          /\ (engineLog[1].outcome # "ok") =>
                /\ result.status = "raised"
                /\ result.error = engineLog[1].outcome

\* C2 witness: of three function-call parts the second failed after the
\* first had produced a result.
C2_Witness ==
    /\ InHandleResponse
    /\ pc = "done"
    /\ Len(CallsOf(call.response)) = 3
    /\ Len(engineLog) = 2
    /\ Len(outputs) = 1
    /\ result.status = "raised"

\* C3: handle_response raises only an error the engine raised, and invokes
\* the engine only for function-call parts; parts without a function call
\* and candidates without parts are passed over while the function-call
\* parts among them are all dispatched; with no candidate, or no
\* function-call part, it returns the empty sequence without any invocation.
C3_SkipsAreSilent ==
    InHandleResponse =>
        LET calls == CallsOf(call.response)
        IN  /\ result.status = "raised" =>
                  /\ engineLog # <<>>
                  /\ result.error \in EngineErrors
            /\ calls = <<>> => engineLog = <<>>
            /\ (pc = "done" /\ calls = <<>>) => result = Returned(<<>>)
            /\ (pc = "done" /\ result.status = "returned") =>
                  Len(result.value) = Len(calls)

\* C3 witness: a response with a candidate without parts and a part without
\* a function call had its function-call part dispatched and returned.
C3_Witness ==
    /\ InHandleResponse
    /\ pc = "done"
    /\ result.status = "returned"
    /\ Len(result.value) = 1
    /\ \E c \in DOMAIN call.response : ~call.response[c].has_parts
    /\ \E c \in DOMAIN call.response :
          \E q \in DOMAIN call.response[c].parts :
              call.response[c].parts[q].function_call = None

\* C4: a function call whose args is None reaches the engine with the empty
\* mapping as params, the walker is never run on None, and the call's
\* invocation and result are those of the same call with args = {}; this
\* holds for direct calls and for calls dispatched by handle_response.
C4_NoneArgsAreEmptyMapping ==
    /\ \A i \in DOMAIN walkerLog : walkerLog[i].kind # "None"
    /\ (InExecute /\ call.function_call.args = NoneVal) =>
          LET same == Alone(FunctionCall(call.function_call.name, EmptyDict))
          IN  /\ engineLog[1].params = EmptyDict
              /\ engineLog[1] = LogEntry(same, engineLog[1].outcome)
              /\ result.status = "returned" => result.value = ActionResult(same)
    /\ InHandleResponse =>
          \A i \in DOMAIN engineLog :
              CallsOf(call.response)[i].args = NoneVal =>
                  engineLog[i].params = EmptyDict

\* C4 witness: handle_response dispatched a function call without args.
C4_Witness ==
    /\ InHandleResponse
    /\ engineLog # <<>>
    /\ CallsOf(call.response)[1].args = NoneVal
    /\ engineLog[1].params = EmptyDict

\* The tool schemas get_action_schemas answered in this get_tool.
Fetched == extCalls[2].ret

Declarations == result.value.function_declarations

GotTool == InGetTool /\ result.status = "returned"

\* The properties of the i-th fetched schema as normalization answers them.
SourceProperties(i) == GetOpt(Fetched[i].parameters.properties, EmptyMapping)

\* C5 as stated: the `properties` mapping of every declaration has no key
\* named `examples`, its property names are those of the schema, and every
\* entry is the schema's without its `examples` key.
C5_Original ==
    GotTool =>
        \A i \in DOMAIN Declarations :
            LET props == Declarations[i].parameters.properties
            IN  /\ "examples" \notin DOMAIN props
                /\ DOMAIN props = DOMAIN SourceProperties(i)
                /\ \A n \in DOMAIN props : "examples" \notin DOMAIN props[n]

\* C5 amended: no property entry of a declaration has a key named
\* `examples`: every entry is the schema's entry without that key, every
\* other key with its value; the property names are those of the schema, a
\* property that is itself named `examples` included.
C5_NoExamplesInEntries ==
    GotTool =>
        \A i \in DOMAIN Declarations :
            LET props == Declarations[i].parameters.properties
                src   == SourceProperties(i)
            IN  /\ DOMAIN props = DOMAIN src
                /\ \A n \in DOMAIN props :
                      /\ "examples" \notin DOMAIN props[n]
                      /\ DOMAIN props[n] = DOMAIN src[n] \ {"examples"}
                      /\ \A k \in DOMAIN props[n] : props[n][k] = src[n][k]

\* C5 witness: a wrapped schema all of whose properties carried `examples`,
\* one of them named `examples`.
C5_Witness ==
    /\ GotTool
    /\ Len(Declarations) = 1
    /\ DOMAIN SourceProperties(1) = PropNames
    /\ \A n \in PropNames : DOMAIN SourceProperties(1)[n] = PropKeys
    /\ DOMAIN Declarations[1].parameters.properties = PropNames

\* C6 as stated: the declaration's description is the schema's description
\* when that is present and truthy, the schema's name otherwise.
C6_Original ==
    GotTool =>
        \A i \in DOMAIN Declarations :
            Declarations[i].description =
                IF Truthy(Fetched[i].description)
                THEN Fetched[i].description[1]
                ELSE Fetched[i].name

\* C6 amended: the declaration's description is the schema's description
\* whenever the schema has one, the empty string included, and the schema's
\* name only when the description is missing (None).
C6_DescriptionOrName ==
    GotTool =>
        \A i \in DOMAIN Declarations :
            Declarations[i].description =
                IF Fetched[i].description # None
                THEN Fetched[i].description[1]
                ELSE Fetched[i].name

\* C6 witness: schemas with an empty and with a missing description wrapped.
C6_Witness ==
    /\ GotTool
    /\ Len(Declarations) = 2
    /\ Fetched[1].description = Some("")
    /\ Declarations[1].description = ""
    /\ Fetched[2].description = None
    /\ Declarations[2].description = Fetched[2].name

\* The entity a call runs under: the explicit argument when one is given
\* (a non-empty identifier), else the toolset's default.
Resolved(explicit) ==
    IF explicit \in {None, Some("")} THEN entity_id ELSE explicit

\* C7: every engine invocation of execute_function_call and of
\* handle_response carries the entity resolved from the caller's argument,
\* so all the invocations of one handle_response carry the same one.
C7_OneEntityPerCall ==
    (InExecute \/ InHandleResponse) =>
        /\ \A i \in DOMAIN engineLog : engineLog[i].entity_id = Resolved(call.entity_id)
        /\ \A i, j \in DOMAIN engineLog : engineLog[i].entity_id = engineLog[j].entity_id

\* C7 witness: handle_response made two invocations under the explicit entity.
C7_Witness ==
    /\ InHandleResponse
    /\ call.entity_id = Some("alice")
    /\ Len(engineLog) = 2
    /\ engineLog[2].entity_id = Some("alice")

RECURSIVE normalize(_)
normalize(obj) ==
    IF obj.kind = "MapComposite"
    THEN [kind  |-> "dict",
          keys  |-> obj.keys,
          items |-> [i \in DOMAIN obj.items |-> normalize(obj.items[i])],
          val   |-> 0]
    ELSE IF obj.kind \in SeqKinds
    THEN [kind  |-> "list",
          keys  |-> <<>>,
          items |-> [i \in DOMAIN obj.items |-> normalize(obj.items[i])],
          val   |-> 0]
    ELSE obj

\* C9: the walker's answer is that of the three cases: a vendor map becomes
\* a plain mapping of the same keys and normalized values, a list/tuple-like
\* sequence a sequence of the same length of normalized elements, any other
\* value is unchanged; normalizing the answer again changes nothing.
C9_WalkerThreeCases ==
    (InExecute /\ call.function_call.args # NoneVal) =>
        /\ engineLog[1].params = normalize(call.function_call.args)
        /\ convert_map_composite(engineLog[1].params) = engineLog[1].params

\* The recursion-depth cap of the walker: below the deepest value drawn.
DepthCap == MaxDepth - 1

\* C10: a function call whose args nest deeper than the cap fails with
\* MalformedResponseError and never reaches the engine.
C10_DepthCapRaises ==
    (InExecute /\ Depth(call.function_call.args) > DepthCap) =>
        /\ result = Raised("MalformedResponseError")
        /\ engineLog = <<>>

====
